---- MODULE Spec2Model ----
(***************************************************************************)
(* Model of src/monitor.py: the JAL award-space monitor.                   *)
(*                                                                         *)
(*   flights = check_flights(); notify(flights); save_to_json(flights)     *)
(*                                                                         *)
(* Strings are sequences of one-character strings, so that the string      *)
(* operations of normalize_flight_num (replace, upper, isdigit,            *)
(* startswith, slicing, int, formatting) are computed, not assumed.        *)
(* JSON values that may be absent are tagged records: NoneV, Str(s),       *)
(* Num(n).                                                                 *)
(***************************************************************************)
EXTENDS Integers, Sequences, FiniteSets

VARIABLES
    apiKey,         \* API_KEY: os.environ.get("SEATS_AERO_API_KEY")
    webhook,        \* WEBHOOK_URL: os.environ.get("DISCORD_WEBHOOK_URL")
    pc,             \* where the run is: "check_flights", "notify", "save_to_json", "done", "crashed"
    idx,            \* check_flights: index into Pairs of the next request
    found_flights,  \* the list check_flights builds; __main__ passes this same list on as `flights`
    requests,       \* the search requests issued so far, in order
    lastKind,       \* what the last search request came back with
    error,          \* the uncaught exception that ended the process, or "none"
    returned,       \* the contents of the list at the moment check_flights returned it
    notifyOutcome,  \* how notify ended
    payload,        \* the payload notify handed to requests.post, or NoneV
    snapshot,       \* the document save_to_json dumped to results.json, or NoneV
    code,           \* SpecNorm: the argument handed to normalize_flight_num
    result          \* SpecNorm: Pending, or what the call produced

runVars ==
    <<apiKey, webhook, pc, idx, found_flights, requests, lastKind, error,
      returned, notifyOutcome, payload, snapshot>>

normVars == <<code, result>>

vars == <<runVars, normVars>>

----------------------------------------------------------------------------
(* Values *)

NoneV == [t |-> "none"]

Str(s) == [t |-> "str", v |-> s]

Num(n) == [t |-> "int", v |-> n]

Raise(e) == [t |-> "raise", v |-> e]

Pending == [t |-> "pending"]

----------------------------------------------------------------------------
(* Characters.  SUP2 stands for U+00B2 (superscript two): str.isdigit()    *)
(* accepts it, int() does not.  HT is the horizontal tab: whitespace that  *)
(* is not the space character.                                             *)

SP == " "

HT == "\t"

SUP2 == "^2"

AsciiDigits == <<"0", "1", "2", "3", "4", "5", "6", "7", "8", "9">>

IsDecimalChar(c) == \E i \in 1..10 : AsciiDigits[i] = c

DigitValue(c) == (CHOOSE i \in 1..10 : AsciiDigits[i] = c) - 1

\* character class of str.isdigit(): decimal digits and the other
\* Unicode digits (superscripts among them)
IsDigitChar(c) == IsDecimalChar(c) \/ c = SUP2

UpperChar(c) ==
    CASE c = "j" -> "J"
      [] c = "l" -> "L"
      [] c = "a" -> "A"
      [] OTHER -> c

----------------------------------------------------------------------------
(* String operations used by normalize_flight_num *)

\* s.replace(" ", ""): removes the space character and nothing else
RECURSIVE RemoveSpaces(_)
RemoveSpaces(s) ==
    IF s = <<>> THEN <<>>
    ELSE IF Head(s) = SP THEN RemoveSpaces(Tail(s))
    ELSE <<Head(s)>> \o RemoveSpaces(Tail(s))

\* s.upper()
Upper(s) == [i \in 1..Len(s) |-> UpperChar(s[i])]

\* s.isdigit(): non-empty and every character a digit
IsDigit(s) == Len(s) > 0 /\ \A i \in 1..Len(s) : IsDigitChar(s[i])

\* s.startswith("JL")
StartsWithJL(s) == Len(s) >= 2 /\ s[1] = "J" /\ s[2] = "L"

\* int(s) succeeds on a string that passed isdigit() iff every character is
\* a decimal digit
IntParses(s) == \A i \in 1..Len(s) : IsDecimalChar(s[i])

RECURSIVE IntOf(_)
IntOf(s) ==
    IF s = <<>> THEN 0
    ELSE 10 * IntOf(SubSeq(s, 1, Len(s) - 1)) + DigitValue(s[Len(s)])

\* str(n) for n >= 0
RECURSIVE StrOfInt(_)
StrOfInt(n) ==
    IF n < 10 THEN <<AsciiDigits[n + 1]>>
    ELSE StrOfInt(n \div 10) \o <<AsciiDigits[(n % 10) + 1]>>

\* f"JL{int(s)}", or the ValueError int() raises
JLKey(s) ==
    IF IntParses(s) THEN Str(<<"J", "L">> \o StrOfInt(IntOf(s)))
    ELSE Raise("ValueError")

\* `not code`: None, the empty string and the number 0 are falsy
Falsy(x) ==
    \/ x.t = "none"
    \/ x.t = "str" /\ x.v = <<>>
    \/ x.t = "int" /\ x.v = 0

\* str(code)
StrOf(x) == IF x.t = "int" THEN StrOfInt(x.v) ELSE x.v

normalize_flight_num(x) ==
    IF Falsy(x) THEN Str(<<>>)
    ELSE LET c == Upper(RemoveSpaces(StrOf(x)))
         IN  IF IsDigit(c) THEN JLKey(c)
             ELSE IF StartsWithJL(c) /\ IsDigit(SubSeq(c, 3, Len(c)))
                  THEN JLKey(SubSeq(c, 3, Len(c)))
             ELSE Str(c)

----------------------------------------------------------------------------
(* Configuration *)

ROUTES == <<[OriginAirport |-> "JFK", DestinationAirport |-> "HND"],
            [OriginAirport |-> "HND", DestinationAirport |-> "JFK"]>>

sources == <<"american", "alaska">>

TARGET_FLIGHTS == {<<"J", "L", "3">>, <<"J", "L", "4">>, <<"J", "L", "5">>, <<"J", "L", "6">>}

\* the (route, source) pairs in the order the nested loops of check_flights
\* visit them: route-major, source-minor
Pairs ==
    [k \in 1..(Len(ROUTES) * Len(sources)) |->
        [route  |-> ROUTES[((k - 1) \div Len(sources)) + 1],
         source |-> sources[((k - 1) % Len(sources)) + 1]]]

----------------------------------------------------------------------------
(* check_flights: the filter applied to one response *)

\* "JL" in op_carrier
Contains(sub, s) ==
    \E i \in 0..(Len(s) - Len(sub)) : SubSeq(s, i + 1, i + Len(sub)) = sub

\* op_carrier = flight.get("OperatingAirlineCode") or ""
OpCarrier(flight) ==
    IF Falsy(flight.OperatingAirlineCode) THEN <<>> ELSE flight.OperatingAirlineCode.v

PassesAirline(flight) == Contains(<<"J", "L">>, OpCarrier(flight))

\* the cabin filter left out
PassesCabin_Always(flight) == TRUE

PassesCabin(flight) == flight.JAvailable \/ flight.FAvailable

\* flight['SourceProgram'] = source; flight['NormalizedFlightNum'] = flight_code
Enrich(flight, source, flight_code) ==
    [OperatingAirlineCode |-> flight.OperatingAirlineCode,
     FlightNumber         |-> flight.FlightNumber,
     JAvailable           |-> flight.JAvailable,
     FAvailable           |-> flight.FAvailable,
     Date                 |-> flight.Date,
     JMileage             |-> flight.JMileage,
     FMileage             |-> flight.FMileage,
     Route                |-> flight.Route,
     SourceProgram        |-> source,
     NormalizedFlightNum  |-> flight_code]

\* for flight in data.get("data", []): ...   The loop stops where
\* normalize_flight_num raises: that call is outside the try block.
RECURSIVE ProcessData(_, _, _)
ProcessData(found, data, source) ==
    IF data = <<>> THEN [found |-> found, raised |-> FALSE]
    ELSE LET flight == Head(data)
         IN  IF ~PassesAirline(flight) THEN ProcessData(found, Tail(data), source)
             ELSE IF ~PassesCabin(flight) THEN ProcessData(found, Tail(data), source)
             ELSE LET flight_code == normalize_flight_num(flight.FlightNumber)
                  IN  IF flight_code.t = "raise"
                      THEN [found |-> found, raised |-> TRUE]
                      ELSE IF flight_code.v \in TARGET_FLIGHTS
                      THEN ProcessData(Append(found, Enrich(flight, source, flight_code.v)),
                                       Tail(data), source)
                      ELSE ProcessData(found, Tail(data), source)

----------------------------------------------------------------------------
(* notify and save_to_json: the pure parts *)

MAX_EMBEDS == 10

\* Python truthiness of a mileage value: absent/None and 0 are falsy
Truthy(x) == ~Falsy(x)

\* the two fields tried in the other order
CostOf_FirstClassFirst(f) == IF Truthy(f.FMileage) THEN f.FMileage ELSE f.JMileage

\* f.get("JMileage") or f.get("FMileage")
CostOf(f) == IF Truthy(f.JMileage) THEN f.JMileage ELSE f.FMileage

\* f"{int(cost):,} pts" if cost else "?"
CostStr(f) ==
    LET cost == CostOf(f)
    IN  IF Truthy(cost) THEN [t |-> "pts", v |-> cost.v] ELSE [t |-> "?"]

\* an unstable sort: an element goes before the elements of its own date
RECURSIVE InsertByDate_Unstable(_, _)
InsertByDate_Unstable(sorted, f) ==
    IF sorted = <<>> THEN <<f>>
    ELSE IF f.Date <= Head(sorted).Date THEN <<f>> \o sorted
    ELSE <<Head(sorted)>> \o InsertByDate_Unstable(Tail(sorted), f)

\* list.sort(key=lambda x: x['Date']) is stable: an element goes after every
\* element already placed whose date is not greater
RECURSIVE InsertByDate(_, _)
InsertByDate(sorted, f) ==
    IF sorted = <<>> THEN <<f>>
    ELSE IF f.Date < Head(sorted).Date THEN <<f>> \o sorted
    ELSE <<Head(sorted)>> \o InsertByDate(Tail(sorted), f)

RECURSIVE SortByDate(_)
SortByDate(flights) ==
    IF flights = <<>> THEN <<>>
    ELSE InsertByDate(SortByDate(SubSeq(flights, 1, Len(flights) - 1)), flights[Len(flights)])

\* the slice one short
FirstEmbeds_Nine(flights) ==
    SubSeq(flights, 1, IF Len(flights) < MAX_EMBEDS - 1 THEN Len(flights) ELSE MAX_EMBEDS - 1)

\* flights[:10]
FirstEmbeds(flights) ==
    SubSeq(flights, 1, IF Len(flights) < MAX_EMBEDS THEN Len(flights) ELSE MAX_EMBEDS)

CabinList(f) ==
    (IF f.FAvailable THEN <<"FIRST">> ELSE <<>>) \o (IF f.JAvailable THEN <<"BIZ">> ELSE <<>>)

DeepLink(f) ==
    <<"https://seats.aero", f.SourceProgram, f.Route.OriginAirport,
      f.Route.DestinationAirport, f.Date>>

Embed(f) ==
    [title       |-> <<f.NormalizedFlightNum, CabinList(f)>>,
     description |-> <<f.Route.OriginAirport, f.Route.DestinationAirport>>,
     url         |-> DeepLink(f),
     color       |-> IF f.SourceProgram = "american" THEN 13111342 ELSE 16741,
     fields      |-> [Date |-> f.Date, Cost |-> CostStr(f), Flight |-> f.NormalizedFlightNum]]

Payload(flights) ==
    LET first == FirstEmbeds(flights)
    IN  [content |-> "JFK-HND A35K Space Detected",
         embeds  |-> [i \in 1..Len(first) |-> Embed(first[i])]]

SnapshotRecord(f) ==
    [date   |-> f.Date,
     route  |-> <<f.Route.OriginAirport, "->", f.Route.DestinationAirport>>,
     flight |-> f.NormalizedFlightNum,
     cabin  |-> IF f.FAvailable THEN "First" ELSE "Business",
     source |-> f.SourceProgram,
     cost   |-> CostOf(f),
     link   |-> DeepLink(f)]

OutputData(flights) ==
    [t            |-> "json",
     last_updated |-> "now",
     flights      |-> [i \in 1..Len(flights) |-> SnapshotRecord(flights[i])]]

\* requests.post outside any try block
AfterPost_Uncaught(outcome) == IF outcome = "post_failed" THEN "crashed" ELSE "save_to_json"

\* try: requests.post(...) except Exception: print(...)  -- notify returns
\* normally either way
AfterPost(outcome) == "save_to_json"

----------------------------------------------------------------------------
(* Inputs of a run *)

MaxRespLen == 1

RECURSIVE SeqsUpTo(_, _)
SeqsUpTo(S, n) ==
    IF n = 0 THEN {<<>>}
    ELSE LET shorter == SeqsUpTo(S, n - 1)
         IN  shorter \cup {Append(s, x) : s \in {u \in shorter : Len(u) = n - 1}, x \in S}

Raw(carrier, number, j, f, date, jm, fm) ==
    [OperatingAirlineCode |-> carrier, FlightNumber |-> number,
     JAvailable |-> j, FAvailable |-> f, Date |-> date, JMileage |-> jm, FMileage |-> fm]

JL == Str(<<"J", "L">>)

\* the results a response may carry: three that pass the filter (different
\* spellings, cabins, costs; two share a date), six that one of the three
\* filters drops, and one whose flight number makes int() raise
Catalog ==
    {Raw(JL, Str(<<"J", "L", "0", "0", "6">>), TRUE, FALSE, 2, Num(60000), NoneV),
     Raw(JL, Str(<<" ", "j", "l", " ", "4">>), FALSE, TRUE, 1, Num(0), Num(80000)),
     Raw(Str(<<"X", "J", "L">>), Num(5), TRUE, TRUE, 1, NoneV, NoneV),
     Raw(Str(<<"A", "A">>), Str(<<"J", "L", "6">>), TRUE, TRUE, 1, Num(60000), NoneV),
     Raw(NoneV, Str(<<"J", "L", "6">>), TRUE, TRUE, 1, Num(60000), NoneV),
     Raw(Str(<<"j", "l">>), Str(<<"J", "L", "6">>), TRUE, TRUE, 1, Num(60000), NoneV),
     Raw(JL, Str(<<"J", "L", "6">>), FALSE, FALSE, 1, Num(60000), NoneV),
     Raw(JL, Str(<<"J", "L", "7">>), TRUE, FALSE, 1, Num(60000), NoneV),
     Raw(JL, NoneV, TRUE, FALSE, 1, Num(60000), NoneV),
     Raw(JL, Str(<<SUP2>>), TRUE, FALSE, 1, Num(60000), NoneV)}

\* the search returns results of the route it was asked for
WithRoute(data, route) ==
    [i \in 1..Len(data) |->
        [OperatingAirlineCode |-> data[i].OperatingAirlineCode,
         FlightNumber         |-> data[i].FlightNumber,
         JAvailable           |-> data[i].JAvailable,
         FAvailable           |-> data[i].FAvailable,
         Date                 |-> data[i].Date,
         JMileage             |-> data[i].JMileage,
         FMileage             |-> data[i].FMileage,
         Route                |-> route]]

\* os.environ.get: unset, set to the empty string, set
KeyValues == {NoneV, Str(<<>>), Str(<<"k", "e", "y">>)}

\* os.environ.get: unset, set
WebhookValues == {NoneV, Str(<<"u", "r", "l">>)}

\* the ways the try block of check_flights fails: requests.get raises,
\* raise_for_status raises, resp.json() raises
CaughtKinds == {"network", "status", "json"}

----------------------------------------------------------------------------
(* The run *)

Init ==
    /\ apiKey \in KeyValues
    /\ webhook \in WebhookValues
    /\ pc = "check_flights"
    /\ idx = 1
    /\ found_flights = <<>>
    /\ requests = <<>>
    /\ lastKind = "none"
    /\ error = "none"
    /\ returned = NoneV
    /\ notifyOutcome = "not_run"
    /\ payload = NoneV
    /\ snapshot = NoneV
    /\ code = NoneV
    /\ result = Pending

\* the loops are over: return found_flights
Advance(found) ==
    /\ idx' = idx + 1
    /\ found_flights' = found
    /\ IF idx = Len(Pairs)
       THEN pc' = "notify" /\ returned' = Str(found)
       ELSE pc' = "check_flights" /\ returned' = returned
    /\ error' = error

\* an exception nothing catches: the process ends with a traceback
Crash(found, exc) ==
    /\ idx' = idx
    /\ found_flights' = found
    /\ pc' = "crashed"
    /\ error' = exc
    /\ returned' = returned

\* the API key check left out
Scanning_IgnoresKey == pc = "check_flights" /\ idx <= Len(Pairs)

Scanning == pc = "check_flights" /\ Truthy(apiKey) /\ idx <= Len(Pairs)

\* if not API_KEY: return []
CheckFlightsNoKey ==
    /\ pc = "check_flights"
    /\ Falsy(apiKey)
    /\ pc' = "notify"
    /\ returned' = Str(<<>>)
    /\ UNCHANGED <<apiKey, webhook, idx, found_flights, requests, lastKind, error,
                   notifyOutcome, payload, snapshot, normVars>>

\* the request of the pair fails inside the try block: print, continue
RequestFails ==
    /\ Scanning
    /\ \E kind \in CaughtKinds : lastKind' = kind
    /\ requests' = Append(requests, Pairs[idx])
    /\ Advance(found_flights)
    /\ UNCHANGED <<apiKey, webhook, notifyOutcome, payload, snapshot, normVars>>

\* the body parses as a JSON object whose "data" (if any) is a list of
\* result objects
RequestOk ==
    /\ Scanning
    /\ \E data \in SeqsUpTo(Catalog, MaxRespLen) :
          LET r == ProcessData(found_flights, WithRoute(data, Pairs[idx].route),
                               Pairs[idx].source)
          IN  IF r.raised THEN Crash(r.found, "ValueError") ELSE Advance(r.found)
    /\ lastKind' = "ok"
    /\ requests' = Append(requests, Pairs[idx])
    /\ UNCHANGED <<apiKey, webhook, notifyOutcome, payload, snapshot, normVars>>

\* the body parses as JSON but is not that: a list, a string or null on top
\* (data.get raises AttributeError) or "data": null (the for statement
\* raises TypeError).  Line 83 is outside the try block.
RequestBadShape ==
    /\ Scanning
    /\ \E exc \in {"AttributeError", "TypeError"} : Crash(found_flights, exc)
    /\ lastKind' = "shape"
    /\ requests' = Append(requests, Pairs[idx])
    /\ UNCHANGED <<apiKey, webhook, notifyOutcome, payload, snapshot, normVars>>

\* if not flights: print, return
NotifyNoMatches ==
    /\ pc = "notify"
    /\ found_flights = <<>>
    /\ notifyOutcome' = "no_matches"
    /\ pc' = "save_to_json"
    /\ UNCHANGED <<apiKey, webhook, idx, found_flights, requests, lastKind, error,
                   returned, payload, snapshot, normVars>>

\* if not WEBHOOK_URL: print, return
NotifyNoWebhook ==
    /\ pc = "notify"
    /\ found_flights # <<>>
    /\ Falsy(webhook)
    /\ notifyOutcome' = "log_only"
    /\ pc' = "save_to_json"
    /\ UNCHANGED <<apiKey, webhook, idx, found_flights, requests, lastKind, error,
                   returned, payload, snapshot, normVars>>

\* sort the list in place, build the embeds of the first ten, post
NotifyPost ==
    /\ pc = "notify"
    /\ found_flights # <<>>
    /\ Truthy(webhook)
    /\ LET sorted == SortByDate(found_flights)
       IN  /\ found_flights' = sorted
           /\ payload' = Payload(sorted)
    /\ \E outcome \in {"delivered", "post_failed"} :
          /\ notifyOutcome' = outcome
          /\ pc' = AfterPost(outcome)
    \* an exception escaping notify would end the process
    /\ error' = IF pc' = "crashed" THEN "RequestException" ELSE error
    /\ UNCHANGED <<apiKey, webhook, idx, requests, lastKind, returned, snapshot, normVars>>

SaveToJson ==
    /\ pc = "save_to_json"
    /\ snapshot' = OutputData(found_flights)
    /\ pc' = "done"
    /\ UNCHANGED <<apiKey, webhook, idx, found_flights, requests, lastKind, error,
                   returned, notifyOutcome, payload, normVars>>

Next ==
    \/ CheckFlightsNoKey
    \/ RequestFails
    \/ RequestOk
    \/ RequestBadShape
    \/ NotifyNoMatches
    \/ NotifyNoWebhook
    \/ NotifyPost
    \/ SaveToJson

Spec == Init /\ [][Next]_vars

----------------------------------------------------------------------------
(* SpecFormat: notify and save_to_json on the lists check_flights can      *)
(* return.  The run starts where check_flights has just returned: its      *)
(* first response carried `data`, the other three carried no results.      *)

MaxMatches == 11

MaxCostLen == 2

\* two results that pass the filter and differ in date and flight
CapPool ==
    {Raw(JL, Str(<<"J", "L", "0", "0", "6">>), TRUE, FALSE, 2, Num(60000), NoneV),
     Raw(JL, Str(<<"4">>), FALSE, TRUE, 1, NoneV, Num(80000))}

Mileages == {NoneV, Num(0), Num(60000), Num(80000)}

\* one result that passes the filter, with every combination of the two
\* mileage fields
CostPool == {Raw(JL, Num(3), TRUE, TRUE, 1, jm, fm) : jm \in Mileages, fm \in Mileages}

FormatInputs == SeqsUpTo(CapPool, MaxMatches) \cup SeqsUpTo(CostPool, MaxCostLen)

InitFormat ==
    /\ apiKey = Str(<<"k", "e", "y">>)
    /\ webhook \in WebhookValues
    /\ pc = "notify"
    /\ idx = Len(Pairs) + 1
    /\ \E data \in FormatInputs :
          found_flights =
              ProcessData(<<>>, WithRoute(data, Pairs[1].route), Pairs[1].source).found
    /\ requests = Pairs
    /\ lastKind = "ok"
    /\ error = "none"
    /\ returned = Str(found_flights)
    /\ notifyOutcome = "not_run"
    /\ payload = NoneV
    /\ snapshot = NoneV
    /\ code = NoneV
    /\ result = Pending

NextFormat ==
    \/ NotifyNoMatches
    \/ NotifyNoWebhook
    \/ NotifyPost
    \/ SaveToJson

SpecFormat == InitFormat /\ [][NextFormat]_vars

----------------------------------------------------------------------------
(* SpecNorm: normalize_flight_num applied to bounded inputs *)

MaxStrLen == 4

MaxNum == 12

Alphabet == {SP, HT, "0", "4", "j", "J", "l", "L", "A", SUP2}

RECURSIVE StringsUpTo(_)
StringsUpTo(n) ==
    IF n = 0 THEN {<<>>}
    ELSE LET shorter == StringsUpTo(n - 1)
         IN  shorter \cup {Append(s, c) : s \in {u \in shorter : Len(u) = n - 1}, c \in Alphabet}

NormInputs ==
    {NoneV} \cup {Num(n) : n \in 0..MaxNum} \cup {Str(s) : s \in StringsUpTo(MaxStrLen)}

InitNorm ==
    /\ code \in NormInputs
    /\ result = Pending
    /\ apiKey = NoneV
    /\ webhook = NoneV
    /\ pc = "normalize_flight_num"
    /\ idx = 1
    /\ found_flights = <<>>
    /\ requests = <<>>
    /\ lastKind = "none"
    /\ error = "none"
    /\ returned = NoneV
    /\ notifyOutcome = "not_run"
    /\ payload = NoneV
    /\ snapshot = NoneV

ApplyNormalize ==
    /\ result = Pending
    /\ result' = normalize_flight_num(code)
    /\ UNCHANGED <<code, runVars>>

NextNorm == ApplyNormalize

SpecNorm == InitNorm /\ [][NextNorm]_vars

----------------------------------------------------------------------------
(* Properties *)

HasJL(s) == \E i \in 1..(Len(s) - 1) : s[i] = "J" /\ s[i + 1] = "L"

Min(a, b) == IF a < b THEN a ELSE b

\* how many positions of the sequence hold x
Count(seq, x) == Cardinality({i \in 1..Len(seq) : seq[i] = x})

KeyMissing == apiKey = NoneV \/ apiKey = Str(<<>>)

\* C1: every record of found_flights, at every point of the run, has an
\* operating carrier containing "JL", at least one of FAvailable/JAvailable
\* true, and a NormalizedFlightNum that is normalize_flight_num(FlightNumber)
\* and a member of TARGET_FLIGHTS.
C1_MatchedFlightInvariant ==
    \A i \in 1..Len(found_flights) :
        LET f == found_flights[i]
        IN  /\ f.OperatingAirlineCode.t = "str"
            /\ HasJL(f.OperatingAirlineCode.v)
            /\ f.JAvailable \/ f.FAvailable
            /\ normalize_flight_num(f.FlightNumber) = Str(f.NormalizedFlightNum)
            /\ f.NormalizedFlightNum \in TARGET_FLIGHTS

C1_Witness ==
    /\ pc = "done"
    /\ Len(found_flights) >= 3
    /\ \E i \in 1..Len(found_flights) :
          /\ found_flights[i].FlightNumber = Str(<<" ", "j", "l", " ", "4">>)
          /\ found_flights[i].NormalizedFlightNum = <<"J", "L", "4">>

\* C2: a search request that fails -- network error, non-2xx status or a
\* malformed response body -- never aborts the scan: the loop has moved on to
\* the next pair and the process has not ended.
C2_FailureIsRecoverable ==
    lastKind \in {"network", "status", "json", "shape"}
        => /\ pc # "crashed"
           /\ error = "none"
           /\ idx = Len(requests) + 1

\* C3: with the API key missing, check_flights returns an empty list without
\* issuing a search request, the run does not fail, notify sends nothing and
\* save_to_json writes a snapshot with an empty flights array.
C3_MissingKey ==
    KeyMissing
        => /\ requests = <<>>
           /\ found_flights = <<>>
           /\ pc # "crashed"
           /\ pc # "check_flights" => returned = Str(<<>>)
           /\ payload = NoneV
           /\ pc = "notify" => ENABLED NotifyNoMatches
           /\ pc \in {"save_to_json", "done"} => notifyOutcome = "no_matches"
           /\ pc = "save_to_json" => ENABLED SaveToJson
           /\ pc = "done" => snapshot.t = "json" /\ snapshot.flights = <<>>

C3_Witness ==
    /\ KeyMissing
    /\ pc = "done"
    /\ snapshot.t = "json"
    /\ snapshot.flights = <<>>

\* C4: with a webhook URL configured and n > 0 matches, the payload notify
\* builds has exactly min(n, 10) embeds, the i-th of them carrying the i-th
\* smallest travel date of the matches, and the snapshot written in the same
\* run has exactly n records.
C4_CapAtTen ==
    (returned # NoneV /\ Len(returned.v) > 0 /\ webhook # NoneV /\ webhook # Str(<<>>))
        => LET n == Len(returned.v)
               dates == [j \in 1..n |-> returned.v[j].Date]
           IN  /\ pc \in {"save_to_json", "done"} => payload # NoneV
               /\ payload # NoneV =>
                     /\ Len(payload.embeds) = Min(n, 10)
                     /\ \A i \in 1..Len(payload.embeds) :
                           LET d == payload.embeds[i].fields.Date
                           IN  /\ Cardinality({j \in 1..n : dates[j] < d}) < i
                               /\ i <= Cardinality({j \in 1..n : dates[j] <= d})
               /\ pc = "done" => snapshot.t = "json" /\ Len(snapshot.flights) = n

C4_Witness ==
    /\ pc = "done"
    /\ payload # NoneV
    /\ Len(returned.v) = 11
    /\ Len(payload.embeds) = 10
    /\ Len(snapshot.flights) = 11
    /\ \E j \in 1..11 : returned.v[j].Date # returned.v[1].Date

\* C5: the embeds are in ascending order of travel date and the sort is
\* stable: the matches of one date keep, among themselves, the order in which
\* the scan accumulated them.
C5_StableDateOrder ==
    payload # NoneV
        => /\ \A i \in 1..(Len(found_flights) - 1) :
                 found_flights[i].Date <= found_flights[i + 1].Date
           /\ \A j \in 1..Len(returned.v) :
                 SelectSeq(found_flights, LAMBDA f : f.Date = returned.v[j].Date)
                     = SelectSeq(returned.v, LAMBDA f : f.Date = returned.v[j].Date)
           /\ Len(found_flights) = Len(returned.v)
           /\ \A i \in 1..Len(payload.embeds) :
                 /\ payload.embeds[i].fields.Date = found_flights[i].Date
                 /\ payload.embeds[i].fields.Flight = found_flights[i].NormalizedFlightNum
                 /\ payload.embeds[i].url = DeepLink(found_flights[i])

C5_Witness ==
    /\ payload # NoneV
    /\ returned.v # found_flights
    /\ \E i, j \in 1..Len(returned.v) :
          /\ i < j
          /\ returned.v[i].Date = returned.v[j].Date
          /\ returned.v[i] # returned.v[j]

\* C6: whatever notify did -- nothing for want of matches, log only for want
\* of a webhook URL, a delivered POST, a failed POST -- it returns normally,
\* save_to_json runs next, and the snapshot holds one record for every match
\* check_flights returned.
C6_SnapshotAfterNotify ==
    /\ pc = "crashed" => notifyOutcome = "not_run"
    /\ notifyOutcome # "not_run" =>
          /\ notifyOutcome \in {"no_matches", "log_only", "delivered", "post_failed"}
          /\ pc \in {"save_to_json", "done"}
    /\ pc = "save_to_json" => ENABLED SaveToJson
    /\ pc = "done" =>
          /\ snapshot.t = "json"
          /\ Len(snapshot.flights) = Len(returned.v)
          /\ \A j \in 1..Len(returned.v) :
                Count(snapshot.flights, SnapshotRecord(returned.v[j]))
                    = Count(returned.v, returned.v[j])

C6_Witness ==
    /\ pc = "done"
    /\ notifyOutcome = "post_failed"
    /\ snapshot.t = "json"
    /\ Len(snapshot.flights) >= 2

\* the claimed normalisation: every whitespace character is dropped, a digit
\* string is a non-empty string of decimal digits
IsWhitespace(c) == c = SP \/ c = HT

RECURSIVE StripWhitespace(_)
StripWhitespace(s) ==
    IF s = <<>> THEN <<>>
    ELSE IF IsWhitespace(Head(s)) THEN StripWhitespace(Tail(s))
    ELSE <<Head(s)>> \o StripWhitespace(Tail(s))

IsDigitString(s) == Len(s) > 0 /\ \A i \in 1..Len(s) : IsDecimalChar(s[i])

ClaimedKey(x) ==
    IF x = NoneV \/ x = Str(<<>>) THEN <<>>
    ELSE LET c == Upper(StripWhitespace(StrOf(x)))
         IN  IF IsDigitString(c) THEN <<"J", "L">> \o StrOfInt(IntOf(c))
             ELSE IF StartsWithJL(c) /\ IsDigitString(SubSeq(c, 3, Len(c)))
                  THEN <<"J", "L">> \o StrOfInt(IntOf(SubSeq(c, 3, Len(c))))
             ELSE c

\* C7: normalize_flight_num raises on no input; null or empty yields "";
\* a digit string d, bare or after "JL", in any letter case and with
\* whitespace anywhere, yields "JL" followed by d without leading zeros; any
\* other input comes back whitespace-stripped and upper-cased.
C7_NormalizeCanonicalTotal ==
    result # Pending => result = Str(ClaimedKey(code))

\* C8: the snapshot's flights array is in the accumulation order of
\* check_flights, one record per match, whether or not a webhook URL is
\* configured: notify leaves the order of the list unchanged.
C8_SnapshotInScanOrder ==
    pc = "done"
        => snapshot.flights = [i \in 1..Len(returned.v) |-> SnapshotRecord(returned.v[i])]

\* C9: with the API key present, the requests issued are always the pairs
\* in route-major, source-minor order, none twice, and a run of check_flights
\* that is over has issued exactly one request for each of the four pairs;
\* every match carries the source of the request that produced it.
C9_OneRequestPerPair ==
    /\ Len(requests) <= Len(Pairs)
    /\ requests = SubSeq(Pairs, 1, Len(requests))
    /\ (~KeyMissing /\ pc # "check_flights") => Len(requests) = 4
    /\ \A i \in 1..Len(found_flights) :
          \E k \in 1..Len(requests) :
              /\ found_flights[i].SourceProgram = requests[k].source
              /\ found_flights[i].Route = requests[k].route

\* the cost the claim describes: business class whenever the field is
\* present, 0 included
ClaimedCost(f) == IF f.JMileage # NoneV THEN f.JMileage ELSE f.FMileage

\* the cost the code uses: business class when present and not 0
ChosenCost(f) ==
    IF f.JMileage # NoneV /\ f.JMileage # Num(0) THEN f.JMileage ELSE f.FMileage

\* C10 as claimed: notification and snapshot use the business-class mileage
\* whenever that field is present (0 included), else the first-class
\* mileage; "?" and a null snapshot cost only when neither is present.
C10_BusinessCostWhenPresent ==
    /\ payload # NoneV =>
          \A i \in 1..Len(payload.embeds) :
              payload.embeds[i].fields.Cost =
                  IF ClaimedCost(found_flights[i]) = NoneV THEN [t |-> "?"]
                  ELSE [t |-> "pts", v |-> ClaimedCost(found_flights[i]).v]
    /\ pc = "done" =>
          \A i \in 1..Len(snapshot.flights) :
              snapshot.flights[i].cost = ClaimedCost(found_flights[i])

\* C10 amended: notification and snapshot use the business-class mileage
\* when that field is present and not 0, else the value of the first-class
\* mileage field; the notification shows "?" when the value so chosen is
\* absent or 0, the snapshot stores the value so chosen (null when absent);
\* the two never choose different fields.
C10_BusinessCostWhenNonZero ==
    /\ payload # NoneV =>
          \A i \in 1..Len(payload.embeds) :
              payload.embeds[i].fields.Cost =
                  IF ChosenCost(found_flights[i]) \in {NoneV, Num(0)} THEN [t |-> "?"]
                  ELSE [t |-> "pts", v |-> ChosenCost(found_flights[i]).v]
    /\ pc = "done" =>
          /\ Len(snapshot.flights) = Len(found_flights)
          /\ \A i \in 1..Len(snapshot.flights) :
                snapshot.flights[i].cost = ChosenCost(found_flights[i])

C10_Witness ==
    /\ pc = "done"
    /\ payload # NoneV
    /\ \E i \in 1..Len(payload.embeds) :
          /\ found_flights[i].JMileage = Num(0)
          /\ found_flights[i].FMileage = Num(80000)
          /\ payload.embeds[i].fields.Cost = [t |-> "pts", v |-> 80000]
          /\ snapshot.flights[i].cost = Num(80000)

====
